---- MODULE Spec2Model ----
(***************************************************************************)
(* Model of altair/utils/save.py: save(), set_inspect_format_argument(),  *)
(* set_inspect_mode_argument() and write_file_or_filename().              *)
(*                                                                         *)
(* A Python string is a sequence of tokens.  A token is either one of the *)
(* separator characters "." and "/" or a word: a non-empty run of         *)
(* characters holding neither separator.  str.split, PurePath.name,       *)
(* PurePath.suffix and str.lstrip(".") only look at the separators, so    *)
(* they act on token sequences exactly as on the characters.              *)
(***************************************************************************)
EXTENDS Integers, Sequences, FiniteSets, TLC

VARIABLES
    fp,                \* the target: [kind, path], kind in str / path / stream
    formatArg,         \* the format argument: [given, val]
    modeArg,           \* the mode argument: [given, val]
    embed_options,     \* the embed_options argument: [hasMode, mode]
    chartSpec,         \* what chart.to_dict() returns: [hasSchema, schema]
    vegalite_version,  \* TRUE when a vegalite_version is supplied (not None)
    inline,            \* the inline argument
    kwargs,            \* the template entry of **kwargs ("none" when absent)
    pc,                \* position of the call
    format,            \* local variable format of save (line 122)
    spec,              \* local variable spec of save (line 124)
    mode,              \* local variable mode of save (line 126)
    request,           \* arguments of the spec_to_mimebundle call
    content,           \* the content handed to write_file_or_filename
    wmode,             \* the mode handed to write_file_or_filename
    error,             \* the exception the call raised, type "none" if none
    trace,             \* the observable events of the call, in order
    sink               \* the target's state: file handle, stream, data

vars == <<fp, formatArg, modeArg, embed_options, chartSpec, vegalite_version,
          inline, kwargs, pc, format, spec, mode, request, content, wmode,
          error, trace, sink>>

inputs == <<fp, formatArg, modeArg, embed_options, chartSpec,
            vegalite_version, inline>>

(***************************************************************************)
(* Bounds.                                                                 *)
(***************************************************************************)
MaxNameLen == 3
MaxSchemaLen == 3

(***************************************************************************)
(* Strings.                                                                *)
(***************************************************************************)
Dot == "."
Slash == "/"
FormatWords == {"json", "html", "png", "svg", "pdf", "vega", "txt"}
NameTokens == FormatWords \cup {Dot, Slash}
ModeWords == {"vega-lite", "v5"}
SchemaTokens == ModeWords \cup {Slash}

SeqsUpTo(S, n) == UNION {[1..k -> S] : k \in 0..n}

VegaLite == <<"vega-lite">>

\* str.split(sep): the list of the pieces of s between the separators
RECURSIVE split(_, _)
split(s, sep) ==
    IF \A k \in 1..Len(s) : s[k] # sep
    THEN <<s>>
    ELSE LET k == CHOOSE i \in 1..Len(s) :
                      s[i] = sep /\ \A j \in 1..(i - 1) : s[j] # sep
         IN <<SubSeq(s, 1, k - 1)>> \o split(SubSeq(s, k + 1, Len(s)), sep)

\* PurePath.name: the final path component
name(p) ==
    LET parts == split(p, Slash) IN parts[Len(parts)]

\* PurePath.suffix: the final component's last suffix, with its dot, or ''
suffix(p) ==
    LET n == name(p)
        dots == {k \in 1..Len(n) : n[k] = Dot}
        i == IF dots = {} THEN 0 ELSE CHOOSE k \in dots : \A j \in dots : j <= k
    IN IF 1 < i /\ i < Len(n) THEN SubSeq(n, i, Len(n)) ELSE <<>>

\* str.lstrip("."): s without its leading dots
RECURSIVE lstrip(_)
lstrip(s) ==
    IF s # <<>> /\ Head(s) = Dot THEN lstrip(Tail(s)) ELSE s

(***************************************************************************)
(* Exceptions.                                                             *)
(***************************************************************************)
NoError == [type |-> "none", msg |-> "", arg |-> <<>>]
ValueError(m, a) == [type |-> "ValueError", msg |-> m, arg |-> a]
IndexError == [type |-> "IndexError", msg |-> "list index out of range", arg |-> <<>>]
KeyError(k) == [type |-> "KeyError", msg |-> k, arg |-> <<>>]
ConverterError == [type |-> "ConverterError", msg |-> "", arg |-> <<>>]
IOError(m) == [type |-> "OSError", msg |-> m, arg |-> <<>>]

(***************************************************************************)
(* set_inspect_format_argument (lines 18-34).                              *)
(***************************************************************************)
FormatRequired == ValueError("must specify file format", <<>>)

\* lines 21-24: the format inferred from a path-like target
InferFormat(target) ==
    IF target.kind = "str"
    THEN LET pieces == split(target.path, Dot) IN pieces[Len(pieces)]
    ELSE lstrip(suffix(target.path))

\* set_inspect_format_argument without the raise of lines 26-29
set_inspect_format_argument_NoRaise(fmt, target, inl) ==
    LET f == IF fmt.given THEN fmt.val
             ELSE IF target.kind = "stream" THEN <<>> ELSE InferFormat(target)
    IN [error |-> NoError,
        format |-> f,
        warn |-> f # <<"html">> /\ inl]

\* the function's outcome: the exception raised (if any), the format
\* returned and whether the warning of line 32 was emitted
set_inspect_format_argument(fmt, target, inl) ==
    LET raises == ~fmt.given /\ target.kind = "stream"
        f == IF fmt.given THEN fmt.val
             ELSE IF raises THEN <<>> ELSE InferFormat(target)
    IN [error |-> IF raises THEN FormatRequired ELSE NoError,
        format |-> f,
        warn |-> ~raises /\ f # <<"html">> /\ inl]

(***************************************************************************)
(* set_inspect_mode_argument (lines 37-53).                                *)
(***************************************************************************)
VersionRequired == ValueError("must specify vega-lite version", <<>>)
ModeError(m) == ValueError("mode must be 'vega-lite'", m)

\* set_inspect_mode_argument without the check of lines 47-48
set_inspect_mode_argument_NoModeCheck(m, embed, sp, version) ==
    LET segs == split(sp.schema, Slash)
        indexError == ~m.given /\ ~embed.hasMode /\ sp.hasSchema /\ Len(segs) < 2
        resolved == IF m.given THEN m.val
                    ELSE IF embed.hasMode THEN embed.mode
                    ELSE IF sp.hasSchema
                         THEN IF indexError THEN <<>> ELSE segs[Len(segs) - 1]
                         ELSE VegaLite
    IN [error |-> IF indexError THEN IndexError
                  ELSE IF resolved = VegaLite /\ ~version THEN VersionRequired
                  ELSE NoError,
        resolved |-> ~indexError,
        mode |-> resolved]

\* set_inspect_mode_argument looking at $schema before embed_options
set_inspect_mode_argument_SchemaFirst(m, embed, sp, version) ==
    LET segs == split(sp.schema, Slash)
        indexError == ~m.given /\ sp.hasSchema /\ Len(segs) < 2
        resolved == IF m.given THEN m.val
                    ELSE IF sp.hasSchema
                         THEN IF indexError THEN <<>> ELSE segs[Len(segs) - 1]
                    ELSE IF embed.hasMode THEN embed.mode
                    ELSE VegaLite
    IN [error |-> IF indexError THEN IndexError
                  ELSE IF resolved # VegaLite THEN ModeError(resolved)
                  ELSE IF ~version THEN VersionRequired
                  ELSE NoError,
        resolved |-> ~indexError,
        mode |-> resolved]

\* set_inspect_mode_argument without the check of lines 50-51
set_inspect_mode_argument_NoVersionCheck(m, embed, sp, version) ==
    LET segs == split(sp.schema, Slash)
        indexError == ~m.given /\ ~embed.hasMode /\ sp.hasSchema /\ Len(segs) < 2
        resolved == IF m.given THEN m.val
                    ELSE IF embed.hasMode THEN embed.mode
                    ELSE IF sp.hasSchema
                         THEN IF indexError THEN <<>> ELSE segs[Len(segs) - 1]
                         ELSE VegaLite
    IN [error |-> IF indexError THEN IndexError
                  ELSE IF resolved # VegaLite THEN ModeError(resolved)
                  ELSE NoError,
        resolved |-> ~indexError,
        mode |-> resolved]

set_inspect_mode_argument(m, embed, sp, version) ==
    LET segs == split(sp.schema, Slash)
        indexError == ~m.given /\ ~embed.hasMode /\ sp.hasSchema /\ Len(segs) < 2
        resolved == IF m.given THEN m.val
                    ELSE IF embed.hasMode THEN embed.mode
                    ELSE IF sp.hasSchema
                         THEN IF indexError THEN <<>> ELSE segs[Len(segs) - 1]
                         ELSE VegaLite
    IN [error |-> IF indexError THEN IndexError
                  ELSE IF resolved # VegaLite THEN ModeError(resolved)
                  ELSE IF ~version THEN VersionRequired
                  ELSE NoError,
        resolved |-> ~indexError,
        mode |-> resolved]

(***************************************************************************)
(* save (lines 56-166): the dispatch on the resolved format.               *)
(***************************************************************************)
Unsupported(f) == ValueError("Unsupported format", f)

\* line 146 with one more format let through to the Converter
ConverterFormats_WithTxt == {<<"png">>, <<"svg">>, <<"pdf">>, <<"vega">>, <<"txt">>}

\* line 146
ConverterFormats == {<<"png">>, <<"svg">>, <<"pdf">>, <<"vega">>}

\* lines 132-133 moved out of the html branch
TemplateOption_AnyFormat(f, inl, kw) ==
    IF inl THEN "inline" ELSE kw

\* lines 132-133 and the **kwargs of lines 143 and 157: the template option
\* the Converter receives
TemplateOption(f, inl, kw) ==
    IF f = <<"html">> /\ inl THEN "inline" ELSE kw

\* lines 134-144 and 147-158: the arguments of the Converter call
ConverterCall(f, m, sp, inl, kw) ==
    [format |-> f, mode |-> m, spec |-> sp,
     template |-> TemplateOption(f, inl, kw),
     embed_options |-> (f = <<"html">>),
     engine |-> (f # <<"html">>)]

\* lines 159-164 with a branch of its own for vega
MimeKey_VegaBranch(f) ==
    IF f = <<"html">> THEN "text/html"
    ELSE IF f = <<"png">> THEN "image/png"
    ELSE IF f = <<"pdf">> THEN "application/pdf"
    ELSE IF f = <<"vega">> THEN "application/vnd.vega.v5+json"
    ELSE "image/svg+xml"

\* lines 145 and 159-164: the entry of the mimebundle that is written
MimeKey(f) ==
    IF f = <<"html">> THEN "text/html"
    ELSE IF f = <<"png">> THEN "image/png"
    ELSE IF f = <<"pdf">> THEN "application/pdf"
    ELSE "image/svg+xml"

\* lines 130, 145 and 159-164: the mode handed to write_file_or_filename
WriteMode(f) ==
    IF f = <<"png">> \/ f = <<"pdf">> THEN "wb" ELSE "w"

\* line 129: json.dumps(spec, **json_kwds)
JsonDumps(sp) ==
    [from |-> "json.dumps", key |-> "", spec |-> sp, template |-> "none"]

NoContent == [from |-> "", key |-> "", spec |-> [hasSchema |-> FALSE, schema |-> <<>>],
              template |-> "none"]
NoRequest == [format |-> <<>>, mode |-> <<>>,
              spec |-> [hasSchema |-> FALSE, schema |-> <<>>],
              template |-> "none", embed_options |-> FALSE, engine |-> FALSE]

(***************************************************************************)
(* The Converter, spec_to_mimebundle: a black box that either raises or    *)
(* returns a mapping from MIME types to content rendered from its          *)
(* arguments.                                                              *)
(***************************************************************************)
Mimes == {"text/html", "image/png", "application/pdf", "image/svg+xml",
          "application/vnd.vega.v5+json"}

\* the entry under key k of the mimebundle rendered for the call r
Rendered(r, k) ==
    [from |-> "mimebundle", key |-> k, spec |-> r.spec, template |-> r.template]

\* the possible outcomes of a call: raised, or the key set of the mapping
spec_to_mimebundle(r) ==
    {[raised |-> TRUE, keys |-> {}]}
        \cup {[raised |-> FALSE, keys |-> K] : K \in SUBSET Mimes}

(***************************************************************************)
(* write_file_or_filename (lines 8-15): the target's state.                *)
(***************************************************************************)
PathLike(target) == target.kind \in {"str", "path"}

NewSink == [handle |-> "none", openMode |-> "", opens |-> 0, data |-> <<>>,
            streamOpen |-> TRUE]

\* line 12: open(fp, mode)
Opened(sk, m) == [sk EXCEPT !.handle = "open", !.openMode = m, !.opens = @ + 1]

\* line 13: f.write(content)
FileWritten(sk, c) ==
    [sk EXCEPT !.data = Append(@, [content |-> c, mode |-> sk.openMode])]

\* line 12: leaving the with block, however it is left, closes the file
Closed(sk) == [sk EXCEPT !.handle = "closed"]

\* lines 12-13 with a plain open and close instead of the with block
AfterFileWrite_NoWith(ok) == IF ok THEN "close" ELSE "raised"

\* line 12: where control goes when f.write returns (ok) or raises
AfterFileWrite(ok) == "close"

\* line 15: fp.write(content) on the caller's stream
StreamWritten(sk, c) ==
    [sk EXCEPT !.data = Append(@, [content |-> c, mode |-> "stream"])]

(***************************************************************************)
(* The arguments of a call.                                                *)
(***************************************************************************)
Given(v) == [given |-> TRUE, val |-> v]
NotGiven == [given |-> FALSE, val |-> <<>>]

\* a PurePath holds no trailing slash and no final "." component
Normalised(p) == p # <<>> /\ p[Len(p)] # Slash /\ name(p) # <<Dot>>

Names == SeqsUpTo(NameTokens, MaxNameLen)
Targets ==
    {[kind |-> "str", path |-> p] : p \in Names}
        \cup {[kind |-> "path", path |-> p] : p \in {q \in Names : Normalised(q)}}
        \cup {[kind |-> "stream", path |-> <<>>]}
FewTargets ==
    {[kind |-> "str", path |-> <<"txt", Dot, "json">>],
     [kind |-> "path", path |-> <<"txt", Dot, "png">>],
     [kind |-> "str", path |-> <<"html">>],
     [kind |-> "stream", path |-> <<>>]}

Formats == {NotGiven} \cup {Given(<<w>>) : w \in FormatWords} \cup {Given(<<>>)}
FewFormats == {NotGiven, Given(<<"json">>), Given(<<"svg">>), Given(<<"txt">>)}

Modes == {NotGiven} \cup {Given(<<w>>) : w \in ModeWords}
EmbedOptions ==
    {[hasMode |-> FALSE, mode |-> <<>>]}
        \cup {[hasMode |-> TRUE, mode |-> <<w>>] : w \in ModeWords}

NoSchema == [hasSchema |-> FALSE, schema |-> <<>>]
Schema(u) == [hasSchema |-> TRUE, schema |-> u]
Specs == {NoSchema} \cup {Schema(u) : u \in SeqsUpTo(SchemaTokens, MaxSchemaLen)}
FewSpecs == {NoSchema, Schema(<<"vega-lite", Slash, "v5">>),
             Schema(<<"v5", Slash, "vega-lite">>)}

\* every target and format, under arguments that resolve the mode
InitFormats ==
    /\ fp \in Targets
    /\ formatArg \in {NotGiven, Given(<<"html">>)}
    /\ modeArg = NotGiven
    /\ embed_options \in {e \in EmbedOptions : ~e.hasMode}
    /\ chartSpec = NoSchema
    /\ vegalite_version = TRUE
    /\ inline \in BOOLEAN
    /\ kwargs = "none"

\* every way of giving the mode, under a few targets and formats
InitModes ==
    /\ fp \in {t \in FewTargets : t.kind = "stream" \/ t.path = <<"txt", Dot, "json">>}
    /\ formatArg \in FewFormats
    /\ modeArg \in Modes
    /\ embed_options \in EmbedOptions
    /\ chartSpec \in Specs
    /\ vegalite_version \in BOOLEAN
    /\ inline = FALSE
    /\ kwargs = "none"

\* every combination of a few of each
InitCalls ==
    /\ fp \in FewTargets
    /\ formatArg \in Formats
    /\ modeArg \in Modes
    /\ embed_options \in EmbedOptions
    /\ chartSpec \in FewSpecs
    /\ vegalite_version \in BOOLEAN
    /\ inline \in BOOLEAN
    /\ kwargs \in {"none", "standard"}

Init ==
    /\ (InitFormats \/ InitModes \/ InitCalls)
    /\ pc = "save"
    /\ format = <<>>
    /\ spec = NoSchema
    /\ mode = <<>>
    /\ request = NoRequest
    /\ content = NoContent
    /\ wmode = ""
    /\ error = NoError
    /\ trace = <<>>
    /\ sink = NewSink

(***************************************************************************)
(* The steps of save.                                                      *)
(***************************************************************************)
Raise(e) == pc' = "raised" /\ error' = e

\* lines 116-122
InspectFormat ==
    /\ pc = "save"
    /\ LET r == set_inspect_format_argument(formatArg, fp, inline) IN
         /\ format' = r.format
         /\ trace' = IF r.warn THEN Append(trace, "warn") ELSE trace
         /\ IF r.error # NoError THEN Raise(r.error)
            ELSE pc' = "to_dict" /\ error' = error
    /\ UNCHANGED <<inputs, kwargs, spec, mode, request, content, wmode, sink>>

\* line 124
ToDict ==
    /\ pc = "to_dict"
    /\ spec' = chartSpec
    /\ trace' = Append(trace, "to_dict")
    /\ pc' = "inspect_mode"
    /\ UNCHANGED <<inputs, kwargs, format, mode, request, content, wmode, error, sink>>

\* line 126
InspectMode ==
    /\ pc = "inspect_mode"
    /\ LET r == set_inspect_mode_argument(modeArg, embed_options, spec,
                                          vegalite_version) IN
         /\ mode' = r.mode
         /\ trace' = IF r.resolved THEN Append(trace, "mode") ELSE trace
         /\ IF r.error # NoError THEN Raise(r.error)
            ELSE pc' = "dispatch" /\ error' = error
    /\ UNCHANGED <<inputs, kwargs, format, spec, request, content, wmode, sink>>

\* save opening the target before it calls the Converter
Dispatch_OpenFirst ==
    /\ pc = "dispatch"
    /\ IF format = <<"json">>
       THEN /\ content' = JsonDumps(spec)
            /\ wmode' = WriteMode(format)
            /\ pc' = "write_file_or_filename"
            /\ UNCHANGED <<request, error, sink>>
       ELSE IF format = <<"html">> \/ format \in ConverterFormats
       THEN /\ request' = ConverterCall(format, mode, spec, inline, kwargs)
            /\ pc' = "spec_to_mimebundle"
            /\ sink' = IF PathLike(fp) THEN Opened(sink, WriteMode(format)) ELSE sink
            /\ UNCHANGED <<content, wmode, error>>
       ELSE /\ Raise(Unsupported(format))
            /\ UNCHANGED <<request, content, wmode, sink>>
    /\ UNCHANGED <<inputs, kwargs, format, spec, mode, trace>>

\* lines 128-134, 146-147 and 165-166
Dispatch ==
    /\ pc = "dispatch"
    /\ IF format = <<"json">>
       THEN /\ content' = JsonDumps(spec)
            /\ wmode' = WriteMode(format)
            /\ pc' = "write_file_or_filename"
            /\ UNCHANGED <<request, error>>
       ELSE IF format = <<"html">> \/ format \in ConverterFormats
       THEN /\ request' = ConverterCall(format, mode, spec, inline, kwargs)
            /\ pc' = "spec_to_mimebundle"
            /\ UNCHANGED <<content, wmode, error>>
       ELSE /\ Raise(Unsupported(format))
            /\ UNCHANGED <<request, content, wmode>>
    /\ UNCHANGED <<inputs, kwargs, format, spec, mode, trace, sink>>

\* lines 134-145 and 147-164: the call and the choice of the entry to write
Convert ==
    /\ pc = "spec_to_mimebundle"
    /\ trace' = Append(trace, "convert")
    /\ \E r \in spec_to_mimebundle(request) :
         IF r.raised
         THEN Raise(ConverterError) /\ UNCHANGED <<content, wmode>>
         ELSE IF MimeKey(format) \notin r.keys
         THEN Raise(KeyError(MimeKey(format))) /\ UNCHANGED <<content, wmode>>
         ELSE /\ content' = Rendered(request, MimeKey(format))
              /\ wmode' = WriteMode(format)
              /\ pc' = "write_file_or_filename"
              /\ error' = error
    /\ UNCHANGED <<inputs, kwargs, format, spec, mode, request, sink>>

(***************************************************************************)
(* The steps of write_file_or_filename.                                    *)
(***************************************************************************)
\* lines 11-12
Open ==
    /\ pc = "write_file_or_filename"
    /\ PathLike(fp)
    /\ \E ok \in BOOLEAN :
         IF ok
         THEN /\ sink' = Opened(sink, wmode)
              /\ trace' = Append(trace, "open")
              /\ pc' = "f.write"
              /\ error' = error
         ELSE /\ Raise(IOError("open"))
              /\ UNCHANGED <<sink, trace>>
    /\ UNCHANGED <<inputs, kwargs, format, spec, mode, request, content, wmode>>

\* line 13
FileWrite ==
    /\ pc = "f.write"
    /\ \E ok \in BOOLEAN :
         /\ sink' = IF ok THEN FileWritten(sink, content) ELSE sink
         /\ trace' = IF ok THEN Append(trace, "write") ELSE trace
         /\ error' = IF ok THEN error ELSE IOError("write")
         /\ pc' = IF AfterFileWrite(ok) = "close" THEN "close"
                  ELSE IF ok THEN "returned" ELSE "raised"
    /\ UNCHANGED <<inputs, kwargs, format, spec, mode, request, content, wmode>>

\* line 12: the end of the with block
Close ==
    /\ pc = "close"
    /\ sink' = Closed(sink)
    /\ trace' = Append(trace, "close")
    /\ pc' = IF error = NoError THEN "returned" ELSE "raised"
    /\ UNCHANGED <<inputs, kwargs, format, spec, mode, request, content, wmode, error>>

\* lines 14-15
StreamWrite ==
    /\ pc = "write_file_or_filename"
    /\ ~PathLike(fp)
    /\ \E ok \in BOOLEAN :
         IF ok
         THEN /\ sink' = StreamWritten(sink, content)
              /\ trace' = Append(trace, "write")
              /\ pc' = "returned"
              /\ error' = error
         ELSE /\ Raise(IOError("write"))
              /\ UNCHANGED <<sink, trace>>
    /\ UNCHANGED <<inputs, kwargs, format, spec, mode, request, content, wmode>>

Next ==
    \/ InspectFormat
    \/ ToDict
    \/ InspectMode
    \/ Dispatch
    \/ Convert
    \/ Open
    \/ FileWrite
    \/ Close
    \/ StreamWrite

Spec == Init /\ [][Next]_vars

(***************************************************************************)
(* Properties.                                                             *)
(***************************************************************************)
Done == pc \in {"returned", "raised"}
Has(e) == \E k \in 1..Len(trace) : trace[k] = e
Count(e) == Cardinality({k \in 1..Len(trace) : trace[k] = e})
FormatResolved == pc # "save" /\ error # FormatRequired
Supported == {<<"json">>, <<"html">>, <<"png">>, <<"svg">>, <<"pdf">>, <<"vega">>}
EndsWith(s, t) ==
    Len(s) >= Len(t) /\ SubSeq(s, Len(s) - Len(t) + 1, Len(s)) = t
Max(S) == CHOOSE k \in S : \A j \in S : j <= k

\* C1: with no explicit format, every path-like target (string or path
\* object) ending in .json, .html, .png, .svg or .pdf gets its extension as
\* the inferred format.
C1_InferredFormatIsExtension ==
    (pc # "save" /\ ~formatArg.given /\ PathLike(fp)) =>
        \A e \in {"json", "html", "png", "svg", "pdf"} :
            EndsWith(fp.path, <<Dot, e>>) => format = <<e>>

\* C2: a stream target with no explicit format fails with the error asking
\* for a format, before the chart is serialized, before the Converter is
\* invoked and before anything is written.
C2_StreamWithoutFormatFails ==
    (pc # "save" /\ fp.kind = "stream" /\ ~formatArg.given) =>
        /\ pc = "raised"
        /\ error = FormatRequired
        /\ ~Has("to_dict") /\ ~Has("convert")
        /\ sink = NewSink

C2_Witness ==
    pc = "raised" /\ fp.kind = "stream" /\ ~formatArg.given /\ inline

\* C3: once the mode is resolved to anything but "vega-lite", save fails with
\* the error naming that mode, whatever the format and the target, and
\* neither the Converter is invoked nor the target written.
C3_NonVegaLiteModeFails ==
    (Has("mode") /\ mode # VegaLite) =>
        /\ pc = "raised"
        /\ error.type = "ValueError"
        /\ error.msg = "mode must be 'vega-lite'"
        /\ error.arg = mode
        /\ ~Has("convert")
        /\ sink = NewSink

C3_Witness ==
    /\ pc = "raised" /\ Has("mode") /\ mode = <<"v5">>
    /\ fp.kind = "stream" /\ format = <<"txt">>
    /\ ~modeArg.given /\ ~embed_options.hasMode

\* the second-to-last of the pieces of s between slashes, s holding a slash
SecondToLast(s) ==
    LET slashes == {k \in 1..Len(s) : s[k] = Slash}
        j == Max(slashes)
        before == {k \in slashes : k < j}
        i == IF before = {} THEN 0 ELSE Max(before)
    IN SubSeq(s, i + 1, j - 1)

\* C4: the resolved mode is the explicit mode when one is given; otherwise
\* embed_options['mode'] when that key is present; otherwise the
\* second-to-last '/'-separated segment of spec['$schema'] when that key is
\* present; otherwise "vega-lite".
C4_ModePriority ==
    Has("mode") =>
        /\ modeArg.given => mode = modeArg.val
        /\ (~modeArg.given /\ embed_options.hasMode) => mode = embed_options.mode
        /\ (~modeArg.given /\ ~embed_options.hasMode /\ chartSpec.hasSchema) =>
               mode = SecondToLast(chartSpec.schema)
        /\ (~modeArg.given /\ ~embed_options.hasMode /\ ~chartSpec.hasSchema) =>
               mode = VegaLite

C4_Witness ==
    /\ Has("mode") /\ ~modeArg.given
    /\ embed_options.hasMode /\ embed_options.mode = VegaLite
    /\ chartSpec.hasSchema /\ chartSpec.schema = <<"v5", Slash, "vega-lite">>
    /\ pc = "returned"

\* C5: when the mode resolves to "vega-lite" and no vegalite_version is
\* supplied, save fails with the error requiring a version, for every format
\* (json included), and nothing is written.
C5_VersionRequired ==
    (Has("mode") /\ mode = VegaLite /\ ~vegalite_version) =>
        /\ pc = "raised"
        /\ error.type = "ValueError"
        /\ error.msg = "must specify vega-lite version"
        /\ ~Has("convert")
        /\ sink = NewSink

C5_Witness ==
    /\ pc = "raised" /\ Has("mode") /\ mode = VegaLite /\ ~vegalite_version
    /\ format = <<"json">>

\* C6: a save that returns has written one content, chosen with its write
\* mode by the resolved format alone: json the serialized spec as text, with
\* no Converter call; html the "text/html" entry as text; png "image/png" as
\* binary; pdf "application/pdf" as binary; svg and vega "image/svg+xml" as
\* text.
C6_WrittenByFormat ==
    pc = "returned" =>
        /\ format \in Supported
        /\ Len(sink.data) = 1
        /\ PathLike(fp) => sink.data[1].mode = wmode
        /\ LET c == sink.data[1].content
               viaConverter(k, m) ==
                   /\ Count("convert") = 1
                   /\ c.from = "mimebundle" /\ c.key = k /\ c.spec = chartSpec
                   /\ wmode = m
           IN /\ format = <<"json">> =>
                    /\ ~Has("convert")
                    /\ c.from = "json.dumps" /\ c.spec = chartSpec
                    /\ wmode = "w"
              /\ format = <<"html">> => viaConverter("text/html", "w")
              /\ format = <<"png">> => viaConverter("image/png", "wb")
              /\ format = <<"pdf">> => viaConverter("application/pdf", "wb")
              /\ format = <<"svg">> => viaConverter("image/svg+xml", "w")
              /\ format = <<"vega">> => viaConverter("image/svg+xml", "w")

C6_Witness ==
    pc = "returned" /\ format = <<"vega">> /\ PathLike(fp) /\ ~formatArg.given

\* C7 as stated: every resolved format outside json, html, png, svg, pdf,
\* vega makes save fail with the error naming the unsupported format.
C7_Original ==
    (Done /\ FormatResolved /\ format \notin Supported) =>
        pc = "raised" /\ error = Unsupported(format)

\* C7 as amended: every resolved format outside json, html, png, svg, pdf,
\* vega makes save fail without a Converter call or a write; the error names
\* the unsupported format when the inspection of the mode succeeded, and is
\* the error of that inspection otherwise.
C7_UnsupportedFormatFails ==
    (Done /\ FormatResolved /\ format \notin Supported) =>
        /\ pc = "raised"
        /\ ~Has("convert")
        /\ sink = NewSink
        /\ (Has("mode") /\ mode = VegaLite /\ vegalite_version) =>
               (error.type = "ValueError" /\ error.msg = "Unsupported format"
                    /\ error.arg = format)
        /\ ~(Has("mode") /\ mode = VegaLite /\ vegalite_version) =>
               error.msg \in {"mode must be 'vega-lite'",
                              "must specify vega-lite version",
                              "list index out of range"}

C7_Witness ==
    /\ pc = "raised" /\ error.msg = "Unsupported format"
    /\ ~formatArg.given /\ format = <<"txt">>

\* C8: with format html the Converter gets template="inline" exactly when
\* inline is true (otherwise the caller's template option, untouched); with
\* any other format and inline true a warning is emitted, the export goes
\* on, and what is requested and written is what inline false gives.
C8_InlineOnlyAffectsHtml ==
    /\ (Has("convert") /\ format = <<"html">>) =>
           request.template = IF inline THEN "inline" ELSE kwargs
    /\ (Has("convert") /\ format # <<"html">>) => request.template = kwargs
    /\ FormatResolved => (Has("warn") <=> (format # <<"html">> /\ inline))
    /\ Count("warn") <= 1
    /\ (Has("warn") /\ pc = "raised") => error # FormatRequired
    /\ (pc = "returned" /\ format # <<"html">>) =>
           sink.data[1].content =
               IF format = <<"json">> THEN JsonDumps(spec)
               ELSE Rendered(ConverterCall(format, mode, spec, FALSE, kwargs),
                             MimeKey(format))

C8_Witness ==
    /\ pc = "returned" /\ inline /\ format = <<"json">> /\ Has("warn")
    /\ Len(sink.data) = 1

\* C9: the file write_file_or_filename opens for a path-like target is
\* opened in the requested mode and is closed when the call returns or
\* raises, a failed write included; a stream target is written directly,
\* never opened and never closed.
C9_HandleOwnership ==
    /\ Done => sink.handle # "open"
    /\ (Done /\ sink.opens > 0) => sink.handle = "closed"
    /\ sink.handle # "none" => (PathLike(fp) /\ sink.openMode = wmode)
    /\ ~PathLike(fp) => (sink.opens = 0 /\ sink.handle = "none")
    /\ sink.streamOpen
    /\ pc = "returned" => /\ Len(sink.data) = 1
                          /\ sink.data[1].content = content
                          /\ PathLike(fp) => sink.opens = 1

C9_Witness ==
    /\ pc = "raised" /\ error = IOError("write")
    /\ sink.opens = 1 /\ sink.handle = "closed"

\* C10: the target is opened or written only after format and mode are
\* resolved and validated and, for formats other than json, after the
\* Converter returned; a save makes at most one write and at most one
\* Converter call; a save that fails before the write leaves the target
\* unopened and unwritten.
C10_WriteAfterResolution ==
    /\ (sink.opens > 0 \/ sink.data # <<>>) =>
           /\ FormatResolved /\ format \in Supported
           /\ Has("to_dict") /\ Has("mode") /\ mode = VegaLite /\ vegalite_version
           /\ format # <<"json">> => Has("convert")
    /\ \A i, j \in 1..Len(trace) :
           (trace[i] \in {"open", "write", "close"} /\
            trace[j] \in {"warn", "to_dict", "mode", "convert"}) => j < i
    /\ Count("convert") <= 1
    /\ Count("write") <= 1 /\ Len(sink.data) <= 1
    /\ sink.opens <= 1
    /\ (pc = "raised" /\ error.type # "OSError") => sink = NewSink
    /\ (pc = "raised" /\ Has("convert") /\ ~Has("open") /\ error.type # "OSError") =>
           error.type \in {"ConverterError", "KeyError"}

C10_Witness ==
    /\ pc = "returned" /\ Has("convert") /\ Has("write") /\ PathLike(fp)

====
